---- MODULE Spec2Model ----
(***************************************************************************)
(* JellysList: the two feed generators, generate_feed.py (live listing,    *)
(* variant "feed") and generate_feed_fast.py (daily master index, variant  *)
(* "fast").  A document is a sequence of tokens, each token standing for   *)
(* one maximal piece of text that the regular expressions of the scripts   *)
(* tell apart.                                                             *)
(***************************************************************************)
EXTENDS Naturals, Sequences, FiniteSets

VARIABLES
    variant,      \* "feed" (generate_feed.py) or "fast" (generate_feed_fast.py)
    disk,         \* HASH_FILE: [complete |-> BOOLEAN, map |-> dict]
    feed_xml,     \* what this process wrote to the feed file: [state, items]
    pc,           \* position of the script
    loaded,       \* the mapping json.load returned at process start
    seen_hashes,  \* the in-memory dict
    items,        \* the in-memory list of feed items
    src,          \* number of sources (feeds / index URLs) already fetched
    filings,      \* entries of the current source still to be processed
    cur,          \* the responses of the filing that last changed the state or raised
    fetched,      \* the last source fetched: [ok, tries] (requests made for it)
    listed,       \* entries the sources have listed in this run
    hist,         \* per identifier: the highlighted contents that reached the hash test
    abort,        \* why the process stopped early
    ext           \* extract_item_4 applied to a document: [doc, done, res]

vars == <<variant, disk, feed_xml, pc, loaded, seen_hashes, items, src,
          filings, cur, fetched, listed, hist, abort, ext>>

pipeline == <<disk, feed_xml, pc, loaded, seen_hashes, items, src,
              filings, cur, fetched, listed, hist, abort>>

(***************************************************************************)
(* Bounds of the model.                                                    *)
(***************************************************************************)
MaxFilings == 2    \* entries the sources list per run
MaxDocLen == 3     \* tokens of a document handed to extract_item_4

(***************************************************************************)
(* Configuration constants of the scripts.                                 *)
(***************************************************************************)
BACKFILL_DAYS == 7
MAX_FEED_ITEMS == 50
FEED_SLICE == 50
FEED_COUNT == 40

Variants == {"feed", "fast"}

(***************************************************************************)
(* Tokens.                                                                 *)
(*   OT   an opening tag start matching <item[_\s]*4   (no '>' yet)        *)
(*   GT   the character '>'                                                *)
(*   CT   a closing tag matching </item[_\s]*4>  (it ends in '>')          *)
(*   H4   "ITEM 4. PURPOSE OF TRANSACTION" with ASCII separators           *)
(*   H4U  the same header with an en or em dash between "4" and "PURPOSE"  *)
(*   H5   "ITEM 5" followed by one separator character                     *)
(*   sp   white space                                                      *)
(*   w    any other text                                                   *)
(*   kw, KW  an occurrence of a keyword, in lower and in upper case        *)
(*   co   an occurrence of the filer's company name                        *)
(*   [kw], [KW], [co]  the same wrapped in <strong> ... </strong>          *)
(***************************************************************************)
ExtractTokens == {"OT", "GT", "CT", "H4", "H4U", "H5", "sp", "w"}

None == [some |-> FALSE, val |-> <<>>]
Some(v) == [some |-> TRUE, val |-> v]

\* str.strip(): white space removed at both ends
RECURSIVE LStrip(_)
LStrip(t) ==
    IF t # <<>> /\ Head(t) = "sp" THEN LStrip(Tail(t)) ELSE t

RECURSIVE RStrip(_)
RStrip(t) ==
    IF t # <<>> /\ t[Len(t)] = "sp" THEN RStrip(SubSeq(t, 1, Len(t) - 1)) ELSE t

Strip(t) == RStrip(LStrip(t))

\* the scan of re.search: the first position >= from whose token is in S, or 0
RECURSIVE FindFirst(_, _, _)
FindFirst(t, from, S) ==
    IF from > Len(t) THEN 0
    ELSE IF t[from] \in S THEN from
    ELSE FindFirst(t, from + 1, S)

\* t[a:b] of Python with 1-based inclusive positions a..b
Slice(t, a, b) == IF a > b THEN <<>> ELSE SubSeq(t, a, b)

\* re.search(r'<item[_\s]*4.*?>(.*?)</item[_\s]*4>', text, re.I | re.S):
\* start positions are tried from the left; '.*?>' stops at the first '>'
\* (a closing tag ends in one) after which a closing tag still follows, and
\* the group runs to the first closing tag.
RECURSIVE SearchTagged(_, _)
SearchTagged(t, i) ==
    IF i > Len(t) THEN None
    ELSE IF t[i] = "OT"
         THEN LET j == FindFirst(t, i + 1, {"GT", "CT"})
                  k == IF j = 0 THEN 0 ELSE FindFirst(t, j + 1, {"CT"})
              IN  IF k # 0 THEN Some(Slice(t, j + 1, k - 1))
                  ELSE SearchTagged(t, i + 1)
         ELSE SearchTagged(t, i + 1)

\* The character class between "4" and "PURPOSE": generate_feed.py lists the
\* en and the em dash; in generate_feed_fast.py the class holds the
\* characters U+00E2, U+20AC, U+201C, U+201D instead, so a header with a dash
\* does not match there.
HeaderTokens(v) == IF v = "feed" THEN {"H4", "H4U"} ELSE {"H4"}

\* start = re.search(ITEM 4 header); end = re.search(ITEM 5, text[start.end():])
PlainItem4(v, t) ==
    LET s == FindFirst(t, 1, HeaderTokens(v))
    IN  IF s = 0 THEN None
        ELSE LET e == FindFirst(t, s + 1, {"H5"})
             IN  IF e # 0 THEN Some(Strip(Slice(t, s + 1, e - 1)))
                 ELSE Some(Strip(Slice(t, s + 1, Len(t))))

extract_item_4(v, t) ==
    IF v = "fast"
    THEN LET match == SearchTagged(t, 1)
         IN  IF match.some THEN Some(Strip(match.val)) ELSE PlainItem4(v, t)
    ELSE PlainItem4(v, t)

(***************************************************************************)
(* Keyword matching, highlighting, hashing.                                *)
(***************************************************************************)
KeywordTokens == {"kw", "KW"}

\* a script that takes every text for a match
AnyTextMatches(t) == TRUE

\* keyword_match(text, KEYWORDS) of generate_feed_fast.py and the any(...) test
\* of generate_feed.py: a case-insensitive search for each keyword in turn
keyword_match(t) == FindFirst(t, 1, KeywordTokens) # 0

\* every occurrence is wrapped, the matched text (its case) is kept
highlight_keywords(t) ==
    [i \in 1..Len(t) |->
        IF t[i] = "kw" THEN "[kw]" ELSE IF t[i] = "KW" THEN "[KW]" ELSE t[i]]

highlight_company(t) ==
    [i \in 1..Len(t) |-> IF t[i] = "co" THEN "[co]" ELSE t[i]]

\* generate_feed.py highlights the keywords only
highlight(v, t) ==
    IF v = "fast" THEN highlight_company(highlight_keywords(t))
    ELSE highlight_keywords(t)

AllTokens == <<"OT", "GT", "CT", "H4", "H4U", "H5", "sp", "w", "kw", "KW",
               "co", "[kw]", "[KW]", "[co]">>

TokenCode(x) == CHOOSE c \in 1..Len(AllTokens) : AllTokens[c] = x

\* hashlib.sha256(...).hexdigest(): a digest that depends on every token and
\* its position; distinct texts of the model get distinct digests, and no
\* digest is 0
RECURSIVE hash_text(_)
hash_text(t) ==
    IF t = <<>> THEN 1
    ELSE hash_text(SubSeq(t, 1, Len(t) - 1)) * (Len(AllTokens) + 1)
         + TokenCode(t[Len(t)])

\* dict.get(key) is None when the key is missing: None is 0, no digest
NoHash == 0
\* a mapping that never finds a hash, and one that never records one
GetMissing(d, k) == NoHash
PutLost(d, k, h) == d

Get(d, k) == IF k \in DOMAIN d THEN d[k] ELSE NoHash
Put(d, k, h) == [x \in DOMAIN d \cup {k} |-> IF x = k THEN h ELSE d[x]]
EmptyDict == [x \in {} |-> NoHash]

(***************************************************************************)
(* Filing references.  A filing has one form type and one filing date.     *)
(***************************************************************************)
Today == 2 * BACKFILL_DAYS
\* the filings the short listings draw from
Ids == {1, 2}
FormOf(i) == IF i % 2 = 1 THEN "SC 13D" ELSE "SC 13D/A"
DateOf(i) == Today - (i % BACKFILL_DAYS)
FilingRef(i) == [id |-> i, form |-> FormOf(i), date |-> DateOf(i)]

(***************************************************************************)
(* fetch_filing_text / get_primary_doc.  A page response is                *)
(* [exc, status, table]: the request raised, or it returned with a status  *)
(* and a page whose document table is missing ("none"), has no SC 13D row  *)
(* ("norow"), has a row without four cells or without a link in front of   *)
(* the SC 13D row ("badrow"), or has a well-formed SC 13D row ("row").     *)
(* A document response is [exc, status, text].                             *)
(***************************************************************************)
NoDoc == [exc |-> FALSE, status |-> 0, text |-> <<>>]
NoPage == [exc |-> FALSE, status |-> 0, table |-> "none"]
NoCur == [page |-> NoPage, doc |-> NoDoc]

\* result of a call: it raised, or it returned val (None or Some)
Raised == [raised |-> TRUE, ret |-> None]
Return(r) == [raised |-> FALSE, ret |-> r]

\* the row scan of both scripts: cols[3] and cols[2].a["href"] raise on a
\* malformed row
LocateRow(page) ==
    CASE page.table = "none" -> Return(None)
      [] page.table = "norow" -> Return(None)
      [] page.table = "badrow" -> Raised
      [] OTHER -> Return(Some(<<>>))

\* generate_feed_fast.py: everything inside one try/except that returns None
fetch_filing_text(page, doc) ==
    IF page.exc \/ page.status # 200 THEN None
    ELSE LET loc == LocateRow(page)
         IN  IF loc.raised \/ ~loc.ret.some THEN None
             ELSE IF doc.exc \/ doc.status # 200 THEN None
             ELSE Some(doc.text)

\* generate_feed.py: no try/except, the status is never read
get_primary_doc(page) ==
    IF page.exc THEN Raised ELSE LocateRow(page)

feed_fetch_text(page, doc) ==
    LET loc == get_primary_doc(page)
    IN  IF loc.raised THEN Raised
        ELSE IF ~loc.ret.some THEN Return(None)
        ELSE IF doc.exc THEN Raised
        ELSE Return(Some(doc.text))

\* the text the main loop goes on with, per script
FetchText(v, page, doc) ==
    IF v = "fast" THEN Return(fetch_filing_text(page, doc))
    ELSE feed_fetch_text(page, doc)

(***************************************************************************)
(* Sources.  generate_feed_fast.py fetches two index URLs (.idx.gz, then   *)
(* .idx) for each of BACKFILL_DAYS days; generate_feed.py parses the two   *)
(* FEEDS.                                                                  *)
(***************************************************************************)
NumSources(v) == IF v = "fast" THEN BACKFILL_DAYS * 2 ELSE 2

\* get_index_urls_for_date: the first URL of a day ends in .gz
IsGz(s) == s % 2 = 1

\* One line of a master index after the "CIK|" line:
\* [nfields, form, date, path]; date 0 is a date strptime cannot parse.
\* parse_master_index reads the lines in order; a line with more than five
\* fields, or a target form with an unparseable date, raises outside the try;
\* otherwise the lines that pass every test become entries, in order.
LineRaises(l) ==
    \/ l.nfields > 5
    \/ l.nfields = 5 /\ l.form \in {"SC 13D", "SC 13D/A"} /\ l.date = 0

\* filing_dt < utcnow() - 7 days, utcnow() being later than midnight: a
\* filing dated BACKFILL_DAYS days ago is dropped
LineKept(l) ==
    /\ l.nfields = 5
    /\ l.form \in {"SC 13D", "SC 13D/A"}
    /\ l.date # 0
    /\ ~(l.date + BACKFILL_DAYS <= Today)

ParseLines(lines) ==
    IF \E i \in 1..Len(lines) : LineRaises(lines[i])
    THEN [raised |-> TRUE, entries |-> <<>>]
    ELSE LET kept == SelectSeq(lines, LineKept)
         IN  [raised |-> FALSE,
              entries |-> [i \in 1..Len(kept) |->
                             [id |-> kept[i].path, form |-> kept[i].form,
                              date |-> kept[i].date]]]

\* An index response: [exc, status, gzip, header, lines]; gzip says that the
\* body is a gzip stream, header that the "CIK|" line is there.
parse_master_index(gz, resp) ==
    IF resp.exc \/ resp.status # 200 THEN [raised |-> FALSE, entries |-> <<>>]
    \* gzip.GzipFile raises inside the try on a body that is no gzip stream
    ELSE IF gz /\ ~resp.gzip THEN [raised |-> FALSE, entries |-> <<>>]
    \* a gzip body read as text, or a body without the "CIK|" line, has no
    \* data lines
    ELSE IF (~gz /\ resp.gzip) \/ ~resp.header
         THEN [raised |-> FALSE, entries |-> <<>>]
    ELSE ParseLines(resp.lines)

\* whether the request for the index file succeeded
IndexFetchOk(gz, resp) == ~resp.exc /\ resp.status = 200 /\ (gz => resp.gzip)

(***************************************************************************)
(* The body of the main loop for one filing f with the text its fetch      *)
(* returned: the new seen_hashes, items and hist.                          *)
(***************************************************************************)
Label(v, f) ==
    IF v = "fast" THEN (IF f.form = "SC 13D" THEN "NEW" ELSE "AMENDED")
    ELSE (IF f.form = "SC 13D/A" THEN "AMENDED" ELSE "NEW")

Skip == [seen |-> seen_hashes, items |-> items, hist |-> hist, raised |-> FALSE]

LoopBody(v, f, text) ==
    IF ~text.some \/ (v = "fast" /\ text.val = <<>>) THEN Skip
    ELSE IF ~keyword_match(text.val) THEN Skip
    ELSE LET item4 == extract_item_4(v, text.val)
         IN  IF ~item4.some \/ item4.val = <<>> THEN Skip
             ELSE LET highlighted == highlight(v, item4.val)
                      item_hash == hash_text(highlighted)
                      h2 == [x \in DOMAIN hist \cup {f.id} |->
                                IF x = f.id
                                THEN Append(IF x \in DOMAIN hist THEN hist[x]
                                            ELSE <<>>, highlighted)
                                ELSE hist[x]]
                  IN  IF Get(seen_hashes, f.id) = item_hash
                      THEN [Skip EXCEPT !.hist = h2]
                      ELSE [seen |-> Put(seen_hashes, f.id, item_hash),
                            \* entry.published_parsed of an entry without
                            \* a date raises after the hash was recorded
                            items |-> IF f.date = 0 THEN items
                                      ELSE Append(items,
                                             [link |-> f.id, label |-> Label(v, f),
                                              content |-> highlighted,
                                              date |-> f.date]),
                            hist |-> h2,
                            raised |-> (f.date = 0)]

(***************************************************************************)
(* The feed that is written.                                               *)
(***************************************************************************)
\* sorted(items, key=date, reverse=True): an item's place is the number of
\* items dated later, plus the number of equally dated items before it in
\* the list (the sort is stable)
Rank(its, i) ==
    Cardinality({j \in 1..Len(its) : its[j].date > its[i].date})
    + Cardinality({j \in 1..i : its[j].date = its[i].date})

SortDesc(its) ==
    [p \in 1..Len(its) |-> its[CHOOSE i \in 1..Len(its) : Rank(its, i) = p]]

Take(q, n) == IF Len(q) <= n THEN q ELSE SubSeq(q, 1, n)

\* generate_feed_fast.py: sorted(items, key=date, reverse=True)[:MAX_FEED_ITEMS]
\* generate_feed.py: items[:50]
FeedOutput(v, its) ==
    IF v = "fast" THEN Take(SortDesc(its), MAX_FEED_ITEMS)
    ELSE Take(its, FEED_SLICE)

(***************************************************************************)
(* State after construction: no process has run, HASH_FILE does not exist  *)
(* (it loads as the empty mapping).                                        *)
(***************************************************************************)
NotWritten == [state |-> "none", items |-> <<>>]
NoFetch == [ok |-> TRUE, tries |-> 0]
NoExt == [doc |-> <<>>, done |-> FALSE, res |-> None]

Memory(m) ==
    /\ loaded = m
    /\ seen_hashes = m
    /\ items = <<>>
    /\ src = 0
    /\ filings = <<>>
    /\ cur = NoCur
    /\ fetched = NoFetch
    /\ listed = 0
    /\ hist = [x \in {} |-> <<>>]
    /\ feed_xml = NotWritten

\* a new process: seen_hashes is what HASH_FILE holds, items is empty
Fresh(m) ==
    /\ loaded' = m
    /\ seen_hashes' = m
    /\ items' = <<>>
    /\ src' = 0
    /\ filings' = <<>>
    /\ cur' = NoCur
    /\ fetched' = NoFetch
    /\ listed' = 0
    /\ hist' = [x \in {} |-> <<>>]
    /\ feed_xml' = NotWritten

Init ==
    /\ variant \in Variants
    /\ disk = [complete |-> TRUE, map |-> EmptyDict]
    /\ pc = "init"
    /\ abort = "none"
    /\ Memory(EmptyDict)
    /\ ext = NoExt

(***************************************************************************)
(* Actions.                                                                *)
(***************************************************************************)
\* lines 29-34 of both scripts: json.load of a file that is not complete
\* JSON raises, and the process ends there
Load ==
    /\ pc \in {"init", "done", "aborted"}
    /\ IF disk.complete
       THEN /\ pc' = "main"
            /\ abort' = "none"
            /\ Fresh(disk.map)
       ELSE /\ pc' = "aborted"
            /\ abort' = "load"
            /\ Fresh(EmptyDict)
    /\ UNCHANGED <<variant, disk, ext>>

\* an uncaught exception or a kill ends the process: what it held in memory
\* is gone (loaded is kept as the record of what it had read)
Stop(why) ==
    /\ pc' = "aborted"
    /\ abort' = why
    /\ seen_hashes' = EmptyDict
    /\ items' = <<>>
    /\ src' = 0
    /\ filings' = <<>>
    /\ fetched' = NoFetch
    /\ listed' = 0
    /\ hist' = [x \in {} |-> <<>>]

\* generate_feed_fast.py lines 168-171: the next index URL is fetched once
FetchIndex(resp) ==
    /\ pc = "main"
    /\ variant = "fast"
    /\ filings = <<>>
    /\ src < NumSources(variant)
    /\ LET gz == IsGz(src + 1)
           r == parse_master_index(gz, resp)
       IN  IF r.raised
           THEN Stop("index")
           ELSE /\ fetched' = [ok |-> IndexFetchOk(gz, resp), tries |-> 1]
                /\ src' = src + 1
                /\ filings' = r.entries
                /\ listed' = listed + Len(r.entries)
                /\ UNCHANGED <<pc, abort, seen_hashes, items, hist>>
    /\ cur' = NoCur
    /\ UNCHANGED <<variant, disk, feed_xml, loaded, ext>>

\* generate_feed.py lines 72-74: feedparser.parse does not raise; a feed that
\* cannot be fetched has no entries
ParseFeed(entries) ==
    /\ pc = "main"
    /\ variant = "feed"
    /\ filings = <<>>
    /\ src < NumSources(variant)
    /\ fetched' = [ok |-> TRUE, tries |-> 1]
    /\ src' = src + 1
    /\ filings' = entries
    /\ listed' = listed + Len(entries)
    /\ cur' = NoCur
    /\ UNCHANGED <<variant, disk, feed_xml, pc, abort, loaded, seen_hashes,
                   items, hist, ext>>

\* one pass of the inner loop: generate_feed_fast.py lines 172-194,
\* generate_feed.py lines 74-116
ProcessFiling(page, doc) ==
    /\ pc = "main"
    /\ filings # <<>>
    /\ LET f == Head(filings)
           t == FetchText(variant, page, doc)
       IN  IF t.raised
           THEN Stop("filing")
           ELSE LET b == LoopBody(variant, f, t.ret)
                IN  IF b.raised
                    THEN Stop("filing")
                    ELSE /\ seen_hashes' = b.seen
                         /\ items' = b.items
                         /\ hist' = b.hist
                         /\ filings' = Tail(filings)
                         /\ UNCHANGED <<pc, abort, src, fetched, listed>>
    /\ cur' = IF pc' = "main" /\ seen_hashes' = seen_hashes /\ items' = items
              THEN NoCur
              ELSE [page |-> page, doc |-> doc]
    /\ UNCHANGED <<variant, disk, feed_xml, loaded, ext>>

LoopDone == pc = "main" /\ filings = <<>> /\ src = NumSources(variant)

\* the feed file is opened for writing and written item by item
WriteFeed ==
    /\ LoopDone
    /\ feed_xml' = [state |-> "written", items |-> FeedOutput(variant, items)]
    /\ pc' = "save"
    /\ cur' = NoCur
    /\ fetched' = NoFetch
    /\ listed' = 0
    /\ UNCHANGED <<variant, disk, abort, loaded, seen_hashes, items, src, filings,
                   hist, ext>>

\* a write fails (disk full): the first n items are in the file
WriteFeedFails(n) ==
    /\ LoopDone
    /\ n <= Len(FeedOutput(variant, items))
    /\ feed_xml' = [state |-> "partial",
                    items |-> Take(FeedOutput(variant, items), n)]
    /\ Stop("feed_write")
    /\ cur' = NoCur
    /\ UNCHANGED <<variant, disk, loaded, ext>>

\* open(HASH_FILE, "w") truncates the file
SaveOpen ==
    /\ pc = "save"
    /\ disk' = [complete |-> FALSE, map |-> EmptyDict]
    /\ pc' = "dump"
    /\ UNCHANGED <<variant, feed_xml, abort, loaded, seen_hashes, items, src,
                   filings, cur, fetched, listed, hist, ext>>

Unwritten == DOMAIN seen_hashes \ DOMAIN disk.map

\* json.dump writes the mapping piece by piece: one more key reaches the file
SaveDump ==
    /\ pc = "dump"
    /\ Unwritten # {}
    /\ LET k == CHOOSE x \in Unwritten : \A y \in Unwritten : x <= y
       IN  disk' = [disk EXCEPT !.map = Put(disk.map, k, seen_hashes[k])]
    /\ UNCHANGED <<variant, feed_xml, pc, abort, loaded, seen_hashes, items, src,
                   filings, cur, fetched, listed, hist, ext>>

\* the closing brace is written and the file closed
SaveClose ==
    /\ pc = "dump"
    /\ Unwritten = {}
    /\ disk' = [disk EXCEPT !.complete = TRUE]
    /\ pc' = "done"
    /\ UNCHANGED <<variant, feed_xml, abort, loaded, seen_hashes, items, src,
                   filings, cur, fetched, listed, hist, ext>>

\* the process is killed from outside
Kill ==
    /\ pc \in {"main", "save", "dump"}
    /\ Stop("kill")
    /\ cur' = NoCur
    /\ UNCHANGED <<variant, disk, feed_xml, loaded, ext>>

(***************************************************************************)
(* What the outside world may answer.                                      *)
(***************************************************************************)
SeqsUpTo(S, n) == UNION {[1..k -> S] : k \in 0..n}

\* documents as BeautifulSoup's get_text returns them (markup is gone)
DocA == <<"H4", "kw">>
DocB == <<"H4", "KW", "co", "H5", "w">>
Docs == {<<>>, <<"kw">>, <<"H4", "w">>, <<"kw", "H4", "sp">>, DocA, DocB}

PageResps ==
    {[exc |-> TRUE, status |-> 0, table |-> "none"]}
    \cup [exc : {FALSE}, status : {200}, table : {"none", "norow", "badrow", "row"}]
    \cup [exc : {FALSE}, status : {404}, table : {"none", "row"}]

\* an error response carries an error page, or whatever the server sends
DocResps ==
    {[exc |-> TRUE, status |-> 0, text |-> <<>>]}
    \cup [exc : {FALSE}, status : {200}, text : Docs]
    \cup [exc : {FALSE}, status : {404}, text : {<<"w">>, DocA}]

\* the document is requested only when a row was found; behind an error
\* page that names a document, the document itself is served
DocRespsFor(page) ==
    IF page.exc \/ page.table # "row" THEN {NoDoc}
    ELSE IF page.status # 200
         THEN {[exc |-> FALSE, status |-> 200, text |-> DocA]}
    ELSE DocResps

GoodLine(i) == [nfields |-> 5, form |-> FormOf(i), date |-> DateOf(i), path |-> i]

\* lines that are not filings to report: too few fields, too many, another
\* form, an unparseable date, a date outside the window
OddLines ==
    {[GoodLine(1) EXCEPT !.nfields = 4],
     [GoodLine(1) EXCEPT !.nfields = 6],
     [GoodLine(1) EXCEPT !.form = "10-K"],
     [GoodLine(1) EXCEPT !.date = 0],
     [GoodLine(1) EXCEPT !.date = Today - BACKFILL_DAYS]}

\* the data lines of an index file: up to k filings, or fewer with one odd
\* line behind them
IndexLines(k) ==
    SeqsUpTo({GoodLine(i) : i \in Ids}, k)
    \cup {Append(l, o) : l \in SeqsUpTo({GoodLine(i) : i \in Ids}, k - 1),
                         o \in OddLines}

\* answers to the request for an index file: the request raises, the file is
\* missing, the body is not what the URL's suffix promises, the "CIK|" line
\* is missing, or the file is there
IndexResps(gz, k) ==
    {[exc |-> TRUE, status |-> 0, gzip |-> FALSE, header |-> FALSE, lines |-> <<>>],
     [exc |-> FALSE, status |-> 404, gzip |-> FALSE, header |-> FALSE, lines |-> <<>>],
     [exc |-> FALSE, status |-> 200, gzip |-> ~gz, header |-> TRUE, lines |-> <<>>],
     [exc |-> FALSE, status |-> 200, gzip |-> gz, header |-> FALSE, lines |-> <<>>]}
    \cup [exc : {FALSE}, status : {200}, gzip : {gz}, header : {TRUE},
          lines : IndexLines(k)]

\* entries of a listing feed; date 0 is an entry without a published date
FeedEntries == {FilingRef(i) : i \in Ids} \cup {[FilingRef(1) EXCEPT !.date = 0]}

Budget == MaxFilings - listed

Next ==
    \/ Load
    \/ \E resp \in IndexResps(IsGz(src + 1), Budget) : FetchIndex(resp)
    \/ \E entries \in SeqsUpTo(FeedEntries, Budget) : ParseFeed(entries)
    \/ \E page \in PageResps : \E doc \in DocRespsFor(page) : ProcessFiling(page, doc)
    \/ WriteFeed
    \/ \E n \in 0..MaxFilings : WriteFeedFails(n)
    \/ SaveOpen
    \/ SaveDump
    \/ SaveClose
    \/ Kill

Spec == Init /\ [][Next]_vars

(***************************************************************************)
(* Long listings: every source answers, every filing is fetched, and a     *)
(* filing whose hash is stored comes back amended.                         *)
(***************************************************************************)
BulkSizes == {MAX_FEED_ITEMS, MAX_FEED_ITEMS + 1}

OkPage == [exc |-> FALSE, status |-> 200, table |-> "row"]

BulkLines(s, n) ==
    IF s = 1 THEN [i \in 1..n |-> GoodLine(i)] ELSE <<>>

BulkIndex(s, n) ==
    [exc |-> FALSE, status |-> 200, gzip |-> IsGz(s), header |-> TRUE,
     lines |-> BulkLines(s, n)]

\* the first feed lists FEED_COUNT entries (count=40), the second the rest
BulkEntries(s, n) ==
    IF s = 1 THEN [i \in 1..FEED_COUNT |-> FilingRef(i)]
    ELSE [i \in 1..(n - FEED_COUNT) |-> FilingRef(FEED_COUNT + i)]

BulkDoc(f) ==
    IF Get(loaded, f.id) = hash_text(highlight(variant, extract_item_4(variant, DocA).val))
    THEN DocB ELSE DocA

NextBulk ==
    \/ Load
    \/ \E n \in BulkSizes : FetchIndex(BulkIndex(src + 1, n))
    \/ \E n \in BulkSizes : ParseFeed(BulkEntries(src + 1, n))
    \/ /\ filings # <<>>
       /\ ProcessFiling(OkPage, [exc |-> FALSE, status |-> 200,
                                 text |-> BulkDoc(Head(filings))])
    \/ WriteFeed
    \/ SaveOpen
    \/ SaveDump
    \/ SaveClose

SpecBulk == Init /\ [][NextBulk]_vars

(***************************************************************************)
(* extract_item_4 on its own, applied to every document of MaxDocLen       *)
(* tokens.                                                                 *)
(***************************************************************************)
InitExtract ==
    /\ variant \in Variants
    /\ disk = [complete |-> TRUE, map |-> EmptyDict]
    /\ pc = "init"
    /\ abort = "none"
    /\ Memory(EmptyDict)
    /\ ext \in [doc : SeqsUpTo(ExtractTokens, MaxDocLen), done : {FALSE}, res : {None}]

Extract ==
    /\ ~ext.done
    /\ ext' = [ext EXCEPT !.done = TRUE, !.res = extract_item_4(variant, ext.doc)]
    /\ UNCHANGED <<variant, pipeline>>

NextExtract == Extract

SpecExtract == InitExtract /\ [][NextExtract]_vars

(***************************************************************************)
(* Properties.                                                             *)
(***************************************************************************)
ItemsFor(q, i) == {p \in 1..Len(q) : q[p].link = i}
Enumerated(i) == i \in DOMAIN hist
AllEnumeratedAs(i, h) == \A p \in 1..Len(hist[i]) : hash_text(hist[i][p]) = h
SameEachTime(i) == \A p, q \in 1..Len(hist[i]) : hist[i][p] = hist[i][q]

\* C1: idempotent re-runs.  In a run that loaded a stored hash for an
\* identifier, if every enumeration of that identifier that reached the hash
\* test had the highlighted content the stored hash was computed from, the
\* run has created no feed item for the identifier, the written feed holds
\* none, and the hash kept in memory and, once the run has completed, the
\* hash in HASH_FILE is the one that was loaded.
C1_Idempotent ==
    \A i \in DOMAIN loaded :
        (Enumerated(i) /\ AllEnumeratedAs(i, loaded[i])) =>
            /\ ItemsFor(items, i) = {}
            /\ ItemsFor(feed_xml.items, i) = {}
            /\ i \in DOMAIN seen_hashes /\ seen_hashes[i] = loaded[i]
            /\ pc = "done" => /\ disk.complete
                              /\ i \in DOMAIN disk.map
                              /\ disk.map[i] = loaded[i]

\* a completed second run that saw an unchanged filing again
C1_Witness ==
    /\ pc = "done"
    /\ \E i \in DOMAIN loaded : Enumerated(i) /\ AllEnumeratedAs(i, loaded[i])

\* C10: within one run, an identifier whose enumerations all had the same
\* highlighted content has at most one feed item, however often it was
\* enumerated.
C10_OneItemPerId ==
    \A i \in DOMAIN hist :
        SameEachTime(i) =>
            /\ Cardinality(ItemsFor(items, i)) <= 1
            /\ Cardinality(ItemsFor(feed_xml.items, i)) <= 1

\* a filing enumerated twice in one run with the same content, emitted once
C10_Witness ==
    \E i \in DOMAIN hist :
        /\ Len(hist[i]) >= 2
        /\ SameEachTime(i)
        /\ Cardinality(ItemsFor(items, i)) = 1

\* What C6 asks of the responses a filing received.  generate_feed.py never
\* reads a response status, so there a document counts as fetched once a
\* response has arrived.
Located(v, page) ==
    ~page.exc /\ page.table = "row" /\ (v = "fast" => page.status = 200)
Fetched(v, doc) == ~doc.exc /\ (v = "fast" => doc.status = 200)
HasKeyword(t) == \E p \in 1..Len(t) : t[p] \in KeywordTokens
Qualifies(v, f, page, doc) ==
    /\ Located(v, page)
    /\ Fetched(v, doc)
    /\ HasKeyword(doc.text)
    /\ LET item4 == extract_item_4(v, doc.text)
       IN  /\ item4.some
           /\ item4.val # <<>>
           /\ hash_text(highlight(v, item4.val)) # Get(seen_hashes, f.id)

C2_ChangedIsReEmitted ==
    pc = "done" =>
        \A i \in DOMAIN loaded :
            (Enumerated(i) /\ SameEachTime(i)
             /\ hash_text(hist[i][1]) # loaded[i]) =>
                /\ \E p \in 1..Len(feed_xml.items) :
                      /\ feed_xml.items[p].link = i
                      /\ feed_xml.items[p].content = hist[i][1]
                /\ Get(disk.map, i) = hash_text(hist[i][1])

\* C3: no partial persistence.  A process that has stopped early, whatever
\* stopped it after the load, has left HASH_FILE a complete document holding
\* exactly the mapping it loaded.
C3_NoPartialPersistence ==
    (pc = "aborted" /\ abort # "load") => (disk.complete /\ disk.map = loaded)

\* What C4 calls a failure of one filing.
FailedResponse(page, doc) ==
    \/ page.exc
    \/ page.status # 200
    \/ page.table \in {"none", "norow", "badrow"}
    \/ doc.exc
    \/ doc.status # 200

\* C4: per-filing failures never abort the run.  Whenever a filing has
\* changed the list of items or the mapping, or ended the run, the responses
\* it received were no failure: a filing whose responses are a failure is
\* skipped and the loop goes on.
C4_FailuresAreSkipped ==
    cur # NoCur => ~FailedResponse(cur.page, cur.doc)

\* C5: feed ordering and cap.  The written feed holds min(number of items,
\* 50) of the run's items, in descending order of filing date, and no item
\* left out is dated later than one that is in it.
C5_FeedSortedAndCapped ==
    feed_xml.state = "written" =>
        LET out == feed_xml.items
            Range(q) == {q[p] : p \in 1..Len(q)}
        IN  /\ Len(out) = (IF Len(items) <= MAX_FEED_ITEMS THEN Len(items)
                          ELSE MAX_FEED_ITEMS)
            /\ Range(out) \subseteq Range(items)
            /\ \A p, q \in 1..Len(out) : p < q => out[p].date >= out[q].date
            /\ \A x \in Range(items) \ Range(out) :
                  \A y \in Range(out) : y.date >= x.date

\* C7: bounded retry of index fetches.  An index file whose fetch has failed
\* was requested more than once before the run went on.
C7_FailedIndexFetchIsRetried ==
    (variant = "fast" /\ src > 0 /\ ~fetched.ok) => fetched.tries > 1

\* The reading of a document C8 describes.
OpensAt(t, i, j) ==
    /\ i < j /\ j <= Len(t)
    /\ t[i] = "OT"
    /\ t[j] \in {"GT", "CT"}
    /\ \A x \in (i + 1)..(j - 1) : t[x] \notin {"GT", "CT"}
TaggedRegion(t, i, j, k) ==
    /\ OpensAt(t, i, j)
    /\ j < k /\ k <= Len(t)
    /\ t[k] = "CT"
    /\ \A x \in (j + 1)..(k - 1) : t[x] # "CT"
HasTagged(t) == \E i, j, k \in 1..Len(t) : TaggedRegion(t, i, j, k)
HeaderAt(t, s) ==
    /\ t[s] \in {"H4", "H4U"}
    /\ \A x \in 1..(s - 1) : t[x] \notin {"H4", "H4U"}
HasHeader(t) == \E s \in 1..Len(t) : HeaderAt(t, s)
Trimmed(t, a, b) == Strip(Slice(t, a, b))
Described(t, r) ==
    IF HasTagged(t)
    THEN \E i, j, k \in 1..Len(t) :
            /\ TaggedRegion(t, i, j, k)
            /\ \A i2, j2, k2 \in 1..Len(t) : TaggedRegion(t, i2, j2, k2) => i <= i2
            /\ r = Some(Trimmed(t, j + 1, k - 1))
    ELSE IF HasHeader(t)
    THEN \E s \in 1..Len(t) :
            /\ HeaderAt(t, s)
            /\ \/ \E e \in (s + 1)..Len(t) :
                     /\ t[e] = "H5"
                     /\ \A x \in (s + 1)..(e - 1) : t[x] # "H5"
                     /\ r = Some(Trimmed(t, s + 1, e - 1))
               \/ /\ \A e \in (s + 1)..Len(t) : t[e] # "H5"
                  /\ r = Some(Trimmed(t, s + 1, Len(t)))
    ELSE r = None

\* C8: extract_item_4 returns the trimmed inner text of the first tagged
\* Item 4 region when there is one; otherwise the trimmed text between the
\* first Item 4 header (ASCII or dash separators) and the next Item 5 header,
\* or the end of the document; otherwise nothing.
C8_ExtractionAsDescribed ==
    ext.done => Described(ext.doc, ext.res)

\* C9: no alert is silently lost.  When a run has completed, every
\* identifier whose hash in HASH_FILE is not the one that was loaded has an
\* item in the feed the run wrote.
C9_RecordedIsInFeed ==
    pc = "done" =>
        \A i \in DOMAIN disk.map :
            disk.map[i] # Get(loaded, i) => ItemsFor(feed_xml.items, i) # {}

====
